---- MODULE Spec2Model ----
(***************************************************************************)
(* Kursziel-Extraktor (src/kursziel_extractor.py).                         *)
(*                                                                         *)
(* Text is a sequence of one-character strings, so that str.replace,       *)
(* str.strip, str.lower, the substring test and float() are computed       *)
(* character by character, as Python computes them.                        *)
(***************************************************************************)
EXTENDS Integers, Sequences, FiniteSets, TLC

VARIABLES
    value,          \* parse_kursziel: the cell value it is called with
    parsed,         \* parse_kursziel: what the call returned
    sel_page,       \* get_kursziele_table: the tables of the fetched page
    sel_result,     \* get_kursziele_table: what the call returned
    excel_path,     \* main: the input path
    file,           \* what is at excel_path: "ok", "missing", "unreadable"
    sheet,          \* the content of sheet Kursziele_Input
    df,             \* process_kursziele_from_excel: the cleaned input rows
    pc,             \* position of the batch
    idx,            \* loop position in df (1-based)
    page,           \* response of the fetch of the current row
    kursziel_table, \* table extracted for the current row
    results,        \* the list of tagged tables collected so far
    final_df,       \* the returned Result Table
    outcome,        \* per processed row, what get_kursziele_table gave
    events,         \* fetches and pauses issued, in order
    ret,            \* the return statement the batch left through
    written         \* files written by main, each with its content

vars == <<value, parsed, sel_page, sel_result, excel_path, file, sheet, df,
          pc, idx, page, kursziel_table, results, final_df, outcome, events,
          ret, written>>

normVars == <<value, parsed>>
selVars == <<sel_page, sel_result>>
batchVars == <<excel_path, file, sheet, df, pc, idx, page, kursziel_table,
               results, final_df, outcome, events, ret, written>>

(***************************************************************************)
(* Bounds of the model.                                                    *)
(***************************************************************************)
\* longest free-form cell text handed to parse_kursziel
MaxLen == 4
\* most tables on a page handed to the table selector
MaxTables == 3
\* most rows of the input sheet
MaxRows == 2

(***************************************************************************)
(* Python str operations.                                                  *)
(***************************************************************************)
IsPrefix(p, s) == Len(p) <= Len(s) /\ SubSeq(s, 1, Len(p)) = p

\* `sub in s`
Contains(sub, s) ==
    \E k \in 0..(Len(s) - Len(sub)) : SubSeq(s, k + 1, k + Len(sub)) = sub

\* s.replace(old, new): every non-overlapping occurrence, leftmost first
RECURSIVE Replace(_, _, _)
Replace(s, old, new) ==
    IF s = <<>> THEN <<>>
    ELSE IF IsPrefix(old, s)
         THEN new \o Replace(SubSeq(s, Len(old) + 1, Len(s)), old, new)
         ELSE <<Head(s)>> \o Replace(Tail(s), old, new)

WhiteSpace == {" ", "\t", "\n"}

RECURSIVE LStrip(_)
LStrip(s) ==
    IF s # <<>> /\ Head(s) \in WhiteSpace THEN LStrip(Tail(s)) ELSE s

RECURSIVE RStrip(_)
RStrip(s) ==
    IF s # <<>> /\ s[Len(s)] \in WhiteSpace
    THEN RStrip(SubSeq(s, 1, Len(s) - 1)) ELSE s

\* s.strip()
Strip(s) == RStrip(LStrip(s))

UpperToLower ==
    ("A" :> "a") @@ ("B" :> "b") @@ ("C" :> "c") @@ ("D" :> "d") @@
    ("E" :> "e") @@ ("F" :> "f") @@ ("G" :> "g") @@ ("H" :> "h") @@
    ("I" :> "i") @@ ("J" :> "j") @@ ("K" :> "k") @@ ("L" :> "l") @@
    ("M" :> "m") @@ ("N" :> "n") @@ ("O" :> "o") @@ ("P" :> "p") @@
    ("Q" :> "q") @@ ("R" :> "r") @@ ("S" :> "s") @@ ("T" :> "t") @@
    ("U" :> "u") @@ ("V" :> "v") @@ ("W" :> "w") @@ ("X" :> "x") @@
    ("Y" :> "y") @@ ("Z" :> "z")

\* s.lower()
Lower(s) ==
    [k \in 1..Len(s) |->
        IF s[k] \in DOMAIN UpperToLower THEN UpperToLower[s[k]] ELSE s[k]]

(***************************************************************************)
(* Cell values.  A cell is NaN/None (absent), a text, or a float.  Floats  *)
(* are kept as exact decimals m * 10^e (m without trailing zeros), which   *)
(* identifies every float the model's short numerals denote.               *)
(***************************************************************************)
None == [t |-> "nan"]
Text(s) == [t |-> "str", s |-> s]
ValueError == [t |-> "ValueError"]

RECURSIVE Normalise(_, _, _)
Normalise(neg, m, e) ==
    IF m = 0 THEN [t |-> "float", neg |-> neg, m |-> 0, e |-> 0]
    ELSE IF m % 10 = 0 THEN Normalise(neg, m \div 10, e + 1)
    ELSE [t |-> "float", neg |-> neg, m |-> m, e |-> e]

Float(m, e) == Normalise(FALSE, m, e)
Inf(neg) == [t |-> "inf", neg |-> neg]

DigitValue ==
    ("0" :> 0) @@ ("1" :> 1) @@ ("2" :> 2) @@ ("3" :> 3) @@ ("4" :> 4) @@
    ("5" :> 5) @@ ("6" :> 6) @@ ("7" :> 7) @@ ("8" :> 8) @@ ("9" :> 9)

Digit == DOMAIN DigitValue

\* digit (["_"] digit)*
IsDigitPart(s) ==
    /\ s # <<>>
    /\ s[1] \in Digit
    /\ s[Len(s)] \in Digit
    /\ \A k \in 1..Len(s) : s[k] \in Digit \cup {"_"}
    /\ \A k \in 1..(Len(s) - 1) : ~(s[k] = "_" /\ s[k + 1] = "_")

OnlyDigits(s) == SelectSeq(s, LAMBDA c : c \in Digit)

RECURSIVE DigitsValue(_)
DigitsValue(s) ==
    IF s = <<>> THEN 0
    ELSE 10 * DigitsValue(SubSeq(s, 1, Len(s) - 1)) + DigitValue[s[Len(s)]]

\* index of the first character of s that is in cs, or 0
FirstIndex(s, cs) ==
    IF \E k \in 1..Len(s) : s[k] \in cs
    THEN CHOOSE k \in 1..Len(s) :
            s[k] \in cs /\ \A j \in 1..(k - 1) : s[j] \notin cs
    ELSE 0

\* float(txt) of Python: surrounding whitespace, sign, inf/infinity/nan,
\* decimal numerals with optional point, exponent and digit underscores.
\* ValueError for everything else.
FloatParse(txt) ==
    LET s0    == Strip(txt)
        sgn   == s0 # <<>> /\ Head(s0) \in {"+", "-"}
        neg   == sgn /\ Head(s0) = "-"
        body  == IF sgn THEN Tail(s0) ELSE s0
        low   == Lower(body)
        ePos  == FirstIndex(body, {"e", "E"})
        mant  == IF ePos = 0 THEN body ELSE SubSeq(body, 1, ePos - 1)
        expo  == IF ePos = 0 THEN <<>> ELSE SubSeq(body, ePos + 1, Len(body))
        xsgn  == expo # <<>> /\ Head(expo) \in {"+", "-"}
        xneg  == xsgn /\ Head(expo) = "-"
        xdig  == IF xsgn THEN Tail(expo) ELSE expo
        pPos  == FirstIndex(mant, {"."})
        ip    == IF pPos = 0 THEN mant ELSE SubSeq(mant, 1, pPos - 1)
        fp    == IF pPos = 0 THEN <<>> ELSE SubSeq(mant, pPos + 1, Len(mant))
        okM   == /\ ip = <<>> \/ IsDigitPart(ip)
                 /\ fp = <<>> \/ IsDigitPart(fp)
                 /\ ~(ip = <<>> /\ fp = <<>>)
        okX   == ePos = 0 \/ IsDigitPart(xdig)
        fd    == OnlyDigits(fp)
        xval  == IF ePos = 0 THEN 0
                 ELSE IF xneg THEN 0 - DigitsValue(OnlyDigits(xdig))
                 ELSE DigitsValue(OnlyDigits(xdig))
    IN  IF low \in {<<"i","n","f">>, <<"i","n","f","i","n","i","t","y">>}
        THEN Inf(neg)
        ELSE IF low = <<"n","a","n">> THEN None
        ELSE IF okM /\ okX
             THEN Normalise(neg, DigitsValue(OnlyDigits(ip) \o fd),
                            xval - Len(fd))
             ELSE ValueError

(***************************************************************************)
(* str(value) for the cell values pandas hands to parse_kursziel.          *)
(***************************************************************************)
RECURSIVE NatToStr(_)
NatToStr(n) ==
    LET d == CHOOSE c \in Digit : DigitValue[c] = n % 10
    IN  IF n < 10 THEN <<d>> ELSE NatToStr(n \div 10) \o <<d>>

RECURSIVE Zeros(_)
Zeros(n) == IF n <= 0 THEN <<>> ELSE <<"0">> \o Zeros(n - 1)

\* repr of a float in positional notation: whole numbers end in ".0"
FloatToStr(v) ==
    LET ds   == NatToStr(v.m)
        sign == IF v.neg THEN <<"-">> ELSE <<>>
        k    == 0 - v.e
    IN  IF v.e >= 0
        THEN sign \o ds \o Zeros(v.e) \o <<".", "0">>
        ELSE IF Len(ds) > k
             THEN sign \o SubSeq(ds, 1, Len(ds) - k) \o <<".">>
                       \o SubSeq(ds, Len(ds) - k + 1, Len(ds))
             ELSE sign \o <<"0", ".">> \o Zeros(k - Len(ds)) \o ds

PyStr(cell) ==
    IF cell.t = "str" THEN cell.s
    ELSE IF cell.t = "float" THEN FloatToStr(cell)
    ELSE IF cell.t = "inf"
         THEN (IF cell.neg THEN <<"-">> ELSE <<>>) \o <<"i","n","f">>
    ELSE <<"n","a","n">>

(***************************************************************************)
(* parse_kursziel                                                          *)
(***************************************************************************)
EuroSign == <<"€">>
EUR == <<"E","U","R">>
USD == <<"U","S","D">>

\* txt.replace('€','').replace('EUR','').replace('USD','').replace(' ','')
StripMarkers(txt) ==
    Replace(Replace(Replace(Replace(txt, EuroSign, <<>>), EUR, <<>>),
                    USD, <<>>), <<" ">>, <<>>)

RewriteSeparatorsKeepDot(stripped) == Replace(stripped, <<",">>, <<".">>)

\* stripped.replace('.', '').replace(',', '.')
RewriteSeparators(stripped) ==
    Replace(Replace(stripped, <<".">>, <<>>), <<",">>, <<".">>)

\* the try/except around float(norm)
FloatOrNoneRaising(norm) == FloatParse(norm)

FloatOrNone(norm) ==
    LET r == FloatParse(norm) IN IF r = ValueError THEN None ELSE r

parse_kursziel(cell) ==
    IF cell = None THEN None
    ELSE FloatOrNone(RewriteSeparators(StripMarkers(PyStr(cell))))

(***************************************************************************)
(* Tables of a fetched page and pandas.read_html.                          *)
(*                                                                         *)
(* A table of the page is [kind, head, body]:                              *)
(*   "thead"  a <thead> section whose cells are head, data rows body       *)
(*   "th"     no <thead>; the first <tr> is all <th> cells (head)          *)
(*   "td"     no <thead>; the first <tr> has <td> cells (head)             *)
(*   "empty"  no <tr> at all                                               *)
(* body holds the data cells as read_html types them (NaN, text, number).  *)
(***************************************************************************)
NoTable == [t |-> "None"]
Raised == [t |-> "raise"]
IntCol(k) == [t |-> "int", n |-> k]
Frame(columns, rows) == [t |-> "df", columns |-> columns, rows |-> rows]

kursziel == <<"k","u","r","s","z","i","e","l">>

\* [th.get_text(strip=True).lower() for th in ...find_all(['th', 'td'])]
HeadersText(table) ==
    [k \in 1..Len(table.head) |-> Lower(Strip(table.head[k]))]

AnyKursziel(texts) == \E k \in 1..Len(texts) : Contains(kursziel, texts[k])

\* pd.read_html(str(table), flavor='bs4')[0]: a <thead> or a leading all-<th>
\* row names the columns; otherwise the columns are numbered 0.. and the
\* first row is data; a table without any text raises ValueError.
ReadHtml(table) ==
    IF table.kind = "empty" THEN Raised
    ELSE IF table.kind \in {"thead", "th"}
    THEN Frame([k \in 1..Len(table.head) |-> Text(Strip(table.head[k]))],
               table.body)
    ELSE Frame([k \in 1..Len(table.head) |-> IntCol(k - 1)],
               <<[k \in 1..Len(table.head) |-> Text(Strip(table.head[k]))]>>
                   \o table.body)

\* df.columns = [col.strip() for col in df.columns]: AttributeError on a
\* column label that is not a str
StripColumns(frame) ==
    IF \E k \in 1..Len(frame.columns) : frame.columns[k].t # "str"
    THEN Raised
    ELSE Frame([k \in 1..Len(frame.columns) |->
                    Text(Strip(frame.columns[k].s))], frame.rows)

\* for col in df.columns: if 'kursziel' in col.lower(): ...; break
\* (position of the column, 0 for kursziel_col = None)
FirstKurszielCol(columns) ==
    IF \E k \in 1..Len(columns) : Contains(kursziel, Lower(columns[k].s))
    THEN CHOOSE k \in 1..Len(columns) :
            /\ Contains(kursziel, Lower(columns[k].s))
            /\ \A j \in 1..(k - 1) : ~Contains(kursziel, Lower(columns[j].s))
    ELSE 0

\* df[kursziel_col] = df[kursziel_col].apply(parse_kursziel)
ApplyColumn(frame, c) ==
    Frame(frame.columns,
          [r \in 1..Len(frame.rows) |->
              [k \in 1..Len(frame.columns) |->
                  IF k = c THEN parse_kursziel(frame.rows[r][k])
                  ELSE frame.rows[r][k]]])

FallbackLast(tables) ==
    LET r == ReadHtml(tables[Len(tables)])
        c == IF r = Raised THEN Raised ELSE StripColumns(r)
    IN  IF c = Raised THEN NoTable
        ELSE [t |-> "df", df |-> c, kursziel_col |-> NoTable,
              index |-> Len(tables)]

\* "Falls keine passende Tabelle gefunden, nimm die erste": the first table,
\* or None when parsing it or cleaning its column names raises
Fallback(tables) ==
    LET r == ReadHtml(tables[1])
        c == IF r = Raised THEN Raised ELSE StripColumns(r)
    IN  IF c = Raised THEN NoTable
        ELSE [t |-> "df", df |-> c, kursziel_col |-> NoTable, index |-> 1]

\* the loop over the tables, from table k on.  An exception raised inside
\* the loop leaves the function through `except Exception` with None.
RECURSIVE ScanTables(_, _)
ScanTables(tables, k) ==
    IF k > Len(tables) THEN Fallback(tables)
    ELSE IF tables[k].kind = "empty" THEN ScanTables(tables, k + 1)
    ELSE IF ~AnyKursziel(HeadersText(tables[k]))
         THEN ScanTables(tables, k + 1)
    ELSE LET r == ReadHtml(tables[k])
             c == IF r = Raised THEN Raised ELSE StripColumns(r)
             kc == IF c = Raised THEN 0 ELSE FirstKurszielCol(c.columns)
         IN  IF c = Raised THEN NoTable
             ELSE IF kc # 0
                  THEN [t |-> "df", df |-> ApplyColumn(c, kc),
                        kursziel_col |-> c.columns[kc], index |-> k]
                  ELSE ScanTables(tables, k + 1)

\* the table selection of get_kursziele_table, after the page was parsed;
\* the result names the table taken and the matched column
SelectTable(tables) ==
    IF tables = <<>> THEN NoTable ELSE ScanTables(tables, 1)

FetchError == [t |-> "error"]
Page(tables) == [t |-> "page", tables |-> tables]

\* get_kursziele_table, given what requests.get answered
get_kursziele_table(response) ==
    IF response = FetchError THEN NoTable
    ELSE LET sel == SelectTable(response.tables)
         IN  IF sel = NoTable THEN NoTable ELSE sel.df

(***************************************************************************)
(* Data frames: column assignment and concatenation.                       *)
(***************************************************************************)
EmptyFrame == Frame(<<>>, <<>>)

HasColumn(frame, name) ==
    \E k \in 1..Len(frame.columns) : frame.columns[k] = name

\* frame[name] = v for a scalar v: overwrites the column of that name, or
\* appends a new last column
SetColumn(frame, name, v) ==
    IF HasColumn(frame, name)
    THEN Frame(frame.columns,
               [r \in 1..Len(frame.rows) |->
                   [k \in 1..Len(frame.columns) |->
                       IF frame.columns[k] = name THEN v
                       ELSE frame.rows[r][k]]])
    ELSE Frame(Append(frame.columns, name),
               [r \in 1..Len(frame.rows) |-> Append(frame.rows[r], v)])

\* value of the column `name` in a row laid out along `columns`; NaN when
\* the row has no such column
CellOf(columns, row, name) ==
    IF \E k \in 1..Len(columns) : columns[k] = name
    THEN row[CHOOSE k \in 1..Len(columns) : columns[k] = name]
    ELSE None

RECURSIVE UnionColumns(_, _)
UnionColumns(frames, acc) ==
    IF frames = <<>> THEN acc
    ELSE UnionColumns(Tail(frames),
             acc \o SelectSeq(Head(frames).columns,
                        LAMBDA c : \A k \in 1..Len(acc) : acc[k] # c))

RECURSIVE AlignedRows(_, _)
AlignedRows(frames, columns) ==
    IF frames = <<>> THEN <<>>
    ELSE [r \in 1..Len(Head(frames).rows) |->
             [k \in 1..Len(columns) |->
                 CellOf(Head(frames).columns, Head(frames).rows[r],
                        columns[k])]]
         \o AlignedRows(Tail(frames), columns)

ConcatLastOnly(frames) ==
    IF frames = <<>> THEN EmptyFrame ELSE frames[Len(frames)]

\* pd.concat(results, ignore_index=True): the union of the columns in order
\* of first appearance, the rows of every frame in list order
Concat(frames) ==
    LET columns == UnionColumns(frames, <<>>)
    IN  Frame(columns, AlignedRows(frames, columns))

(***************************************************************************)
(* process_kursziele_from_excel                                            *)
(***************************************************************************)
Url == <<"U","r","l">>
Source_URL == <<"S","o","u","r","c","e","_","U","R","L">>

ColumnIndex(columns, name) ==
    IF \E k \in 1..Len(columns) : columns[k] = name
    THEN CHOOSE k \in 1..Len(columns) : columns[k] = name
    ELSE 0

CleanRowsKeepBlank(sh, url_column) ==
    LET u == ColumnIndex(sh.columns, url_column)
        keep == SelectSeq([k \in 1..Len(sh.rows) |-> k],
                          LAMBDA k : sh.rows[k][u] # None)
    IN  [j \in 1..Len(keep) |->
            [index |-> keep[j],
             url |-> Strip(PyStr(sh.rows[keep[j]][u])),
             cells |-> sh.rows[keep[j]]]]

\* df = df[df[url_column].notna()]
\* df[url_column] = df[url_column].astype(str).str.strip()
\* df = df[df[url_column] != '']
\* (each kept row with its index label in the sheet)
CleanRows(sh, url_column) ==
    LET u == ColumnIndex(sh.columns, url_column)
        keep == SelectSeq([k \in 1..Len(sh.rows) |-> k],
                          LAMBDA k : /\ sh.rows[k][u] # None
                                     /\ Strip(PyStr(sh.rows[k][u])) # <<>>)
    IN  [j \in 1..Len(keep) |->
            [index |-> keep[j],
             url |-> Strip(PyStr(sh.rows[keep[j]][u])),
             cells |-> sh.rows[keep[j]]]]

\* for col in df.columns: if col != url_column: kursziel_table[col] = row[col]
RECURSIVE CopyColumns(_, _, _, _, _)
CopyColumns(frame, columns, cells, url_column, k) ==
    IF k > Len(columns) THEN frame
    ELSE CopyColumns(
             IF columns[k] # url_column
             THEN SetColumn(frame, Text(columns[k]), cells[k])
             ELSE frame,
             columns, cells, url_column, k + 1)

\* kursziel_table['Source_URL'] = url, then the copies of the input row
TagRows(frame, row, columns, url_column) ==
    CopyColumns(SetColumn(frame, Text(Source_URL), Text(row.url)),
                columns, row.cells, url_column, 1)

EndsWith(s, suffix) ==
    Len(suffix) <= Len(s)
    /\ SubSeq(s, Len(s) - Len(suffix) + 1, Len(s)) = suffix

\* result.to_excel(output_path): pandas takes the writer from the extension
Writable(path) ==
    \/ EndsWith(path, <<".","x","l","s","x">>)
    \/ EndsWith(path, <<".","x","l","s","m">>)
    \/ EndsWith(path, <<".","o","d","s">>)

FetchEvent(row) == [e |-> "fetch", url |-> row.url, row |-> row.index]
SleepEvent == [e |-> "sleep"]

NoPause(ev) == ev

\* time.sleep(1)
Pause(ev) == Append(ev, SleepEvent)

\* excel_path.replace('.xlsx', '_kursziele.xlsx')
\*           .replace('.xls', '_kursziele.xlsx')
OutputPath(path) ==
    Replace(Replace(path, <<".","x","l","s","x">>,
                    <<"_","k","u","r","s","z","i","e","l","e",
                      ".","x","l","s","x">>),
            <<".","x","l","s">>,
            <<"_","k","u","r","s","z","i","e","l","e",".","x","l","s","x">>)

(***************************************************************************)
(* Inputs of the model.                                                    *)
(***************************************************************************)
Inst == <<"I","n","s","t">>
Kursziel == <<"K","u","r","s","z","i","e","l">>
KURSZIEL_alt == <<"K","U","R","S","Z","I","E","L"," ","a","l","t">>
Kurs == <<"K","u","r","s">>
WKN == <<"W","K","N">>

T_kz ==
    [kind |-> "th", head |-> <<Inst, Kursziel>>,
     body |-> << <<Text(<<"A">>), Text(<<"1",".","2","3","4",",","5","6"," ","€">>)>>,
                 <<Text(<<"B">>), Text(<<"n","/","a">>)>> >>]
T_kz2 ==
    [kind |-> "thead", head |-> <<Inst, KURSZIEL_alt, Kursziel>>,
     body |-> << <<Text(<<"C">>), Text(<<"9","9",",","5">>), Float(12350, 0)>> >>]
T_plain ==
    [kind |-> "th", head |-> <<Inst, Kurs>>,
     body |-> << <<Text(<<"X">>), Text(<<"7",",","5">>)>> >>]
T_td_kz ==
    [kind |-> "td", head |-> <<Inst, Kursziel>>,
     body |-> << <<Text(<<"A">>), Text(<<"5",",","0">>)>> >>]
T_td_plain ==
    [kind |-> "td", head |-> <<Inst, Kurs>>,
     body |-> << <<Text(<<"X">>), Text(<<"7",",","5">>)>> >>]
T_empty == [kind |-> "empty", head |-> <<>>, body |-> <<>>]
T_norows == [kind |-> "thead", head |-> <<Kursziel>>, body |-> <<>>]

TableChoices ==
    {T_kz, T_kz2, T_plain, T_td_kz, T_td_plain, T_empty, T_norows}

SeqsUpTo(S, n) == UNION {[1..k -> S] : k \in 0..n}

\* pages handed to the table selector
Pages == SeqsUpTo(TableChoices, MaxTables)

\* what requests.get may answer for a row of the batch
Responses ==
    {FetchError, Page(<<>>), Page(<<T_kz>>), Page(<<T_plain, T_kz2>>),
     Page(<<T_plain>>), Page(<<T_td_kz>>), Page(<<T_norows>>)}

\* get_kursziele_table for each of these answers
ExtractedTable == [response \in Responses |-> get_kursziele_table(response)]

NormChars == {"1", "5", ".", ",", " ", "€", "-", "x"}

FixedTexts ==
    {<<"1",".","2","3","4",",","5","6">>,
     <<"1","2","3","4",",","5","6">>,
     <<"1",".","2","3","4",",","5","6"," ","€">>,
     <<"1","2","3","4",".","5","6"," ","U","S","D">>,
     <<"1",",","2","3","4">>,
     <<"1","2","3",",","5","0"," ","E","U","R">>,
     <<"U","E","U","R","S","D","7">>,
     <<"1","E","3">>, <<"1","_","0">>, <<"+","2",",","5","e","-","1">>,
     <<"i","n","f">>, <<"n","a","n">>, <<"\t","4","2","\n">>,
     <<"1","\t","2">>, <<"n","/","a">>}

\* cell values handed to parse_kursziel
NormInputs ==
    {None} \cup {Text(s) : s \in SeqsUpTo(NormChars, MaxLen) \cup FixedTexts}
           \cup {Float(12350, 0), Float(125, -1), Float(0, 0)}

\* the table the cell under test sits in
CellTable(cell) ==
    [kind |-> "th", head |-> <<Inst, Kursziel>>,
     body |-> << <<Text(<<"A">>), cell>>,
                 <<Text(<<"B">>), Text(<<"1",",","5">>)>> >>]

UrlCells == {None, Text(<<" ">>), Text(<<" ","a"," ">>), Text(<<"b">>)}

SheetColumns ==
    {<<Url, WKN>>, <<WKN, Url, Source_URL>>, <<Url, Kurs>>, <<WKN>>}

\* the cell of a pass-through column in sheet row r
MetaCell(name, r) == Text(<<Head(Lower(name))>> \o NatToStr(r))

SheetOf(columns, urls) ==
    [columns |-> columns,
     rows |-> [r \in 1..Len(urls) |->
                  [k \in 1..Len(columns) |->
                      IF columns[k] = Url THEN urls[r]
                      ELSE MetaCell(columns[k], r)]]]

Sheets ==
    {SheetOf(c, u) : c \in SheetColumns, u \in SeqsUpTo(UrlCells, MaxRows)}

In_xlsx == <<"i","n",".","x","l","s","x">>
In_xls == <<"i","n",".","x","l","s">>
In_xlsm == <<"i","n",".","x","l","s","m">>
In_ods == <<"i","n",".","o","d","s">>

Paths == {In_xlsx, In_xls, In_xlsm, In_ods}

SampleSheet ==
    SheetOf(<<Url, WKN>>, [r \in 1..MaxRows |-> Text(<<"b">>)])

Pending == [t |-> "pending"]
NoResponse == [t |-> "no response"]

(***************************************************************************)
(* The initial states.                                                     *)
(***************************************************************************)
IdleNorm == value = None /\ parsed = Pending
IdleSel == sel_page = <<>> /\ sel_result = Pending

BatchStart ==
    /\ df = <<>>
    /\ idx = 1
    /\ page = NoResponse
    /\ kursziel_table = NoTable
    /\ results = <<>>
    /\ final_df = EmptyFrame
    /\ outcome = <<>>
    /\ events = <<>>
    /\ ret = "running"
    /\ written = {}

IdleBatch ==
    /\ excel_path = In_xlsx
    /\ file = "ok"
    /\ sheet = SheetOf(<<Url>>, <<>>)
    /\ pc = "Idle"
    /\ BatchStart

\* main was called with a path; the file is there with some sheet, is
\* missing, or cannot be read as a workbook with sheet Kursziele_Input
Init ==
    /\ IdleNorm
    /\ IdleSel
    /\ pc = "Start"
    /\ BatchStart
    /\ \/ excel_path = In_xlsx /\ file = "ok" /\ sheet \in Sheets
       \/ excel_path \in Paths /\ file = "ok" /\ sheet = SampleSheet
       \/ /\ excel_path \in Paths
          /\ file \in {"missing", "unreadable"}
          /\ sheet = SheetOf(<<Url>>, <<>>)

InitNorm == IdleSel /\ IdleBatch /\ parsed = Pending /\ value \in NormInputs

InitSel == IdleNorm /\ IdleBatch /\ sel_result = Pending /\ sel_page \in Pages

(***************************************************************************)
(* The steps of process_kursziele_from_excel and main.                     *)
(***************************************************************************)
\* pd.read_excel and the cleaning of the address column (lines 124-134),
\* with the two except clauses of the function
ReadExcel ==
    /\ pc = "Start"
    /\ IF file = "missing"
       THEN pc' = "Done" /\ ret' = "FileNotFoundError" /\ df' = df
       ELSE IF file = "unreadable" \/ ColumnIndex(sheet.columns, Url) = 0
       THEN pc' = "Done" /\ ret' = "Exception" /\ df' = df
       ELSE /\ df' = CleanRows(sheet, Url)
            /\ pc' = IF CleanRows(sheet, Url) = <<>>
                     THEN "Concatenating" ELSE "Fetching"
            /\ ret' = ret
    /\ UNCHANGED <<normVars, selVars, excel_path, file, sheet, idx, page,
                   kursziel_table, results, final_df, outcome, events,
                   written>>

\* the loop moves to the next row, or leaves
NextRow ==
    /\ idx' = idx + 1
    /\ pc' = IF idx + 1 > Len(df) THEN "Concatenating" ELSE "Fetching"

FetchAborting ==
    /\ pc = "Fetching"
    /\ \E response \in Responses :
          /\ page' = response
          /\ events' = Append(events, FetchEvent(df[idx]))
          /\ IF response = FetchError
             THEN /\ pc' = "Done"
                  /\ ret' = "Exception"
                  /\ UNCHANGED <<outcome, idx>>
             ELSE /\ pc' = "Extracting"
                  /\ UNCHANGED <<outcome, idx, ret>>
    /\ UNCHANGED <<normVars, selVars, excel_path, file, sheet, df,
                   kursziel_table, results, final_df, written>>

\* requests.get(url) inside get_kursziele_table (lines 139-142, 24-30); a
\* RequestException makes the function return None and the row is skipped
Fetch ==
    /\ pc = "Fetching"
    /\ \E response \in Responses :
          /\ page' = response
          /\ events' = Append(events, FetchEvent(df[idx]))
          /\ IF response = FetchError
             THEN /\ outcome' = Append(outcome, NoTable)
                  /\ NextRow
             ELSE /\ pc' = "Extracting"
                  /\ UNCHANGED <<outcome, idx>>
    /\ UNCHANGED <<normVars, selVars, excel_path, file, sheet, df,
                   kursziel_table, results, final_df, ret, written>>

\* the rest of get_kursziele_table and the test of line 144
Extract ==
    /\ pc = "Extracting"
    /\ LET table == ExtractedTable[page]
       IN  /\ kursziel_table' = table
           /\ outcome' = Append(outcome, table)
           /\ IF table # NoTable /\ Len(table.rows) > 0
              THEN pc' = "Merging" /\ idx' = idx
              ELSE NextRow
    /\ UNCHANGED <<normVars, selVars, excel_path, file, sheet, df, page,
                   results, final_df, events, ret, written>>

\* lines 145-153: tag the rows, collect the table, pause
Merge ==
    /\ pc = "Merging"
    /\ results' = Append(results,
                         TagRows(kursziel_table, df[idx], sheet.columns, Url))
    /\ events' = Pause(events)
    /\ NextRow
    /\ UNCHANGED <<normVars, selVars, excel_path, file, sheet, df, page,
                   kursziel_table, final_df, outcome, ret, written>>

\* lines 157-164
Concatenate ==
    /\ pc = "Concatenating"
    /\ IF results # <<>>
       THEN final_df' = Concat(results) /\ ret' = "final_df"
       ELSE final_df' = EmptyFrame /\ ret' = "empty"
    /\ pc' = "Done"
    /\ UNCHANGED <<normVars, selVars, excel_path, file, sheet, df, idx, page,
                   kursziel_table, results, outcome, events, written>>

\* main, lines 187-197: result.empty holds when the frame has no rows;
\* to_excel raises for a path whose extension names no Excel writer
Save ==
    /\ pc = "Done"
    /\ IF final_df.rows = <<>>
       THEN written' = written /\ pc' = "Exit"
       ELSE IF Writable(OutputPath(excel_path))
       THEN /\ written' = written \cup {[path |-> OutputPath(excel_path),
                                         content |-> final_df]}
            /\ pc' = "Exit"
       ELSE written' = written /\ pc' = "Crashed"
    /\ UNCHANGED <<normVars, selVars, excel_path, file, sheet, df, idx, page,
                   kursziel_table, results, final_df, outcome, events, ret>>

Next == ReadExcel \/ Fetch \/ Extract \/ Merge \/ Concatenate \/ Save

Spec == Init /\ [][Next]_vars

\* the program is one sequential thread: it keeps running until main returns
FairSpec == Spec /\ WF_vars(Next)

(***************************************************************************)
(* parse_kursziel on one cell of a target-price table.                     *)
(***************************************************************************)
NormaliseCell ==
    /\ parsed = Pending
    /\ parsed' = parse_kursziel(value)
    /\ sel_page' = <<CellTable(value)>>
    /\ sel_result' = SelectTable(<<CellTable(value)>>)
    /\ UNCHANGED <<value, batchVars>>

NextNorm == NormaliseCell

SpecNorm == InitNorm /\ [][NextNorm]_vars

(***************************************************************************)
(* The table selection on one page.                                        *)
(***************************************************************************)
Select ==
    /\ sel_result = Pending
    /\ sel_result' = SelectTable(sel_page)
    /\ UNCHANGED <<normVars, sel_page, batchVars>>

NextSel == Select

SpecSel == InitSel /\ [][NextSel]_vars

(***************************************************************************)
(* Properties of parse_kursziel (checked under SpecNorm).                  *)
(***************************************************************************)
Txt_1p234c56 == <<"1",".","2","3","4",",","5","6">>
Txt_1234c56 == <<"1","2","3","4",",","5","6">>
Txt_1p234c56_Euro == <<"1",".","2","3","4",",","5","6"," ","€">>
Txt_1234p56_USD == <<"1","2","3","4",".","5","6"," ","U","S","D">>

\* C3, as claimed: each of "1.234,56", "1234,56", "1.234,56 €" and
\* "1234.56 USD" is normalised to 1234.56.
C3_AllFourGive1234_56 ==
    (parsed # Pending
     /\ value \in {Text(Txt_1p234c56), Text(Txt_1234c56),
                   Text(Txt_1p234c56_Euro), Text(Txt_1234p56_USD)})
        => parsed = Float(123456, -2)

\* C3, amended: "1.234,56", "1234,56" and "1.234,56 €" are normalised to
\* 1234.56; "1234.56 USD" loses its '.' as a thousands separator and is
\* normalised to 123456.
C3_EuropeanRule ==
    parsed # Pending =>
        /\ value \in {Text(Txt_1p234c56), Text(Txt_1234c56),
                      Text(Txt_1p234c56_Euro)}
              => parsed = Float(123456, -2)
        /\ value = Text(Txt_1234p56_USD) => parsed = Float(123456, 0)

C3_Witness ==
    value = Text(Txt_1234p56_USD) /\ parsed = Float(123456, 0)

NumeralChars == Digit \cup {"+", "-", ".", "e", "E", "_"}

\* texts Python's float() names a value for without any digit
SpecialNumeral(s) ==
    LET b == Strip(s)
        u == IF b # <<>> /\ Head(b) \in {"+", "-"} THEN Tail(b) ELSE b
    IN  Lower(u) \in {<<"i","n","f">>, <<"n","a","n">>,
                      <<"i","n","f","i","n","i","t","y">>}

\* a text that is plainly no numeral: empty, without a digit, with a
\* character no numeral has, or with more than one decimal point
NotNumeral(s) ==
    /\ ~SpecialNumeral(s)
    /\ \/ s = <<>>
       \/ \A k \in 1..Len(s) : s[k] \notin Digit
       \/ \E k \in 1..Len(s) : s[k] \notin NumeralChars \cup WhiteSpace
       \/ Cardinality({k \in 1..Len(s) : s[k] = "."}) > 1

KeywordInHeader(table) ==
    \E k \in 1..Len(table.head) : Contains(kursziel, Lower(table.head[k]))

NoKeywordOnPage ==
    \A k \in 1..Len(sel_page) : ~KeywordInHeader(sel_page[k])

NamesOf(head) == [k \in 1..Len(head) |-> Text(head[k])]

C6_FirstKeywordTableWins ==
    (sel_result # Pending /\ ~NoKeywordOnPage) =>
        LET f == CHOOSE k \in 1..Len(sel_page) :
                    /\ KeywordInHeader(sel_page[k])
                    /\ \A j \in 1..(k - 1) : ~KeywordInHeader(sel_page[j])
            c == CHOOSE k \in 1..Len(sel_page[f].head) :
                    /\ Contains(kursziel, Lower(sel_page[f].head[k]))
                    /\ \A j \in 1..(k - 1) :
                          ~Contains(kursziel, Lower(sel_page[f].head[j]))
        IN  /\ sel_result # NoTable
            /\ sel_result.index = f
            /\ sel_result.kursziel_col = Text(sel_page[f].head[c])
            /\ Len(sel_result.df.rows) = Len(sel_page[f].body)
            /\ \A r \in 1..Len(sel_page[f].body) :
                  sel_result.df.rows[r][c] =
                      parse_kursziel(sel_page[f].body[r][c])

(***************************************************************************)
(* Properties of the batch (checked under Spec and FairSpec).              *)
(***************************************************************************)
Returned == pc \in {"Done", "Exit", "Crashed"}

\* the sheet was read and its address column found
SheetRead == file = "ok" /\ \E k \in 1..Len(sheet.columns) : sheet.columns[k] = Url

\* get_kursziele_table gave a table with at least one row for df row k
RowOk(k) == outcome[k] # NoTable /\ Len(outcome[k].rows) > 0

\* for every row the result should hold: the df row and the extracted row
\* it comes from, successful df rows in order
RECURSIVE OriginsFrom(_)
OriginsFrom(k) ==
    IF k > Len(outcome) THEN <<>>
    ELSE (IF RowOk(k)
          THEN [r \in 1..Len(outcome[k].rows) |-> [k |-> k, r |-> r]]
          ELSE <<>>) \o OriginsFrom(k + 1)

PassThrough(name) ==
    \E k \in 1..Len(sheet.columns) :
        sheet.columns[k] # Url /\ Text(sheet.columns[k]) = name

FinalCell(j, name) == CellOf(final_df.columns, final_df.rows[j], name)

\* C1: the Result Table holds exactly the extracted rows of the successful
\* input rows, grouped per input row in input order, none lost or doubled,
\* and is empty when every row failed.
C1_ResultIsUnionInOrder ==
    (Returned /\ ret \in {"final_df", "empty"}) =>
        LET o == OriginsFrom(1)
        IN  /\ Len(outcome) = Len(df)
            /\ Len(final_df.rows) = Len(o)
            /\ o = <<>> => final_df = EmptyFrame
            /\ \A j \in 1..Len(o) :
                  LET t == outcome[o[j].k]
                  IN  /\ \A c \in 1..Len(t.columns) :
                            (t.columns[c] # Text(Source_URL)
                             /\ ~PassThrough(t.columns[c]))
                            => FinalCell(j, t.columns[c]) = t.rows[o[j].r][c]
                      /\ \A c \in 1..Len(sheet.columns) :
                            sheet.columns[c] # Url
                            => FinalCell(j, Text(sheet.columns[c]))
                                 = MetaCell(sheet.columns[c], df[o[j].k].index)

C1_Witness ==
    /\ Returned
    /\ Len(sheet.rows) = 2
    /\ Len(df) = 2
    /\ RowOk(1) /\ RowOk(2)
    /\ outcome[1] # outcome[2]
    /\ Len(final_df.rows) = Len(outcome[1].rows) + Len(outcome[2].rows)

\* C2, as claimed: the batch ends early with an empty Result Table only when
\* the input file is not found.
C2_OnlyFileNotFoundAborts ==
    (Returned /\ ret \notin {"final_df", "empty"}) => file = "missing"

\* C2, amended: the batch ends early with an empty Result Table exactly when
\* reading the input raises (file not found, unreadable workbook or sheet,
\* no address column); a row whose fetch, parse or normalisation fails is
\* skipped alone: every row is still processed and every successful row
\* has its table collected.
C2_ReadFailuresAbortRowFailuresDoNot ==
    /\ Returned =>
          /\ ret \in {"FileNotFoundError", "Exception"} <=> ~SheetRead
          /\ ret = "FileNotFoundError" <=> file = "missing"
          /\ ~SheetRead => final_df = EmptyFrame /\ events = <<>>
          /\ SheetRead => Len(outcome) = Len(df)
    /\ pc \in {"Fetching", "Concatenating", "Done", "Exit", "Crashed"} =>
          Len(results) = Cardinality({k \in 1..Len(outcome) : RowOk(k)})

C2_Witness ==
    /\ Returned
    /\ Len(df) = 2
    /\ ~RowOk(1) /\ RowOk(2)
    /\ Len(results) = 1
    /\ final_df.rows # <<>>

\* C7: every result row carries the address of its input row as Source_URL
\* and that input row's value in every non-address column of the sheet.
C7_RowsCarryAddressAndMetadata ==
    (Returned /\ ret = "final_df") =>
        LET o == OriginsFrom(1)
        IN  \A j \in 1..Len(final_df.rows) :
               /\ FinalCell(j, Text(Source_URL)) = Text(df[o[j].k].url)
               /\ \A c \in 1..Len(sheet.columns) :
                     sheet.columns[c] # Url
                     => FinalCell(j, Text(sheet.columns[c]))
                          = sheet.rows[df[o[j].k].index][c]

Kursziele_xlsx ==
    <<"_","k","u","r","s","z","i","e","l","e",".","x","l","s","x">>

\* C8: a non-empty result is written to the input path with '_kursziele'
\* put once before the extension, never to the input path itself; an empty
\* result writes nothing.
C8_OutputBesideInput ==
    pc \in {"Exit", "Crashed"} =>
        IF final_df.rows = <<>> THEN written = {}
        ELSE /\ Cardinality(written) = 1
             /\ \A w \in written :
                   /\ w.content = final_df
                   /\ w.path # excel_path
                   /\ EndsWith(excel_path, <<".","x","l","s","x">>)
                      => w.path = SubSeq(excel_path, 1, Len(excel_path) - 5)
                                    \o Kursziele_xlsx
                   /\ EndsWith(excel_path, <<".","x","l","s">>)
                      => w.path = SubSeq(excel_path, 1, Len(excel_path) - 4)
                                    \o Kursziele_xlsx

\* the fetches a sheet calls for: one per row whose address is present and
\* not blank, in sheet order
RECURSIVE ExpectedFetches(_)
ExpectedFetches(r) ==
    LET u == sheet.rows[r][ColumnIndex(sheet.columns, Url)]
        trimmed == Strip(PyStr(u))
    IN  IF r > Len(sheet.rows) THEN <<>>
        ELSE (IF u # None /\ trimmed # <<>>
              THEN <<[e |-> "fetch", url |-> trimmed, row |-> r]>>
              ELSE <<>>) \o ExpectedFetches(r + 1)

Fetches == SelectSeq(events, LAMBDA ev : ev.e = "fetch")

StageOrder ==
    SheetRead =>
        \/ pc = "Start" /\ pc' \in {"Fetching", "Concatenating"}
        \/ pc = "Fetching" /\ pc' \in {"Extracting", "Fetching", "Concatenating"}
        \/ pc = "Extracting" /\ pc' \in {"Merging", "Fetching", "Concatenating"}
        \/ pc = "Merging" /\ pc' \in {"Fetching", "Concatenating"}
        \/ pc = "Concatenating" /\ pc' = "Done"
        \/ pc = "Done" /\ pc' \in {"Exit", "Crashed"}

\* C9: for every sheet and every outcome of its rows the batch moves
\* Start -> per row Fetching / Extracting / Merging -> Concatenating -> Done
\* and reaches Done, having issued exactly one fetch per row with a
\* non-blank address, in sheet order, and none for the other rows.
C9_BatchRunsToDone ==
    /\ <>(pc = "Done")
    /\ [][StageOrder]_vars
    /\ []((pc = "Done" /\ SheetRead) => Fetches = ExpectedFetches(1))

C9_Witness ==
    /\ pc = "Done"
    /\ SheetRead
    /\ Len(sheet.rows) = 2
    /\ sheet.rows[1][ColumnIndex(sheet.columns, Url)] = Text(<<" ">>)
    /\ Len(Fetches) = 1
    /\ RowOk(1)

\* number of fetches among the first k events: the df row of a fetch
FetchNo(k) == Len(SelectSeq(SubSeq(events, 1, k), LAMBDA ev : ev.e = "fetch"))

\* C10, as claimed: a pause lies between any two consecutive fetches.
C10_PauseBetweenAnyTwoFetches ==
    \A k \in 1..(Len(events) - 1) :
        ~(events[k].e = "fetch" /\ events[k + 1].e = "fetch")

\* C10, amended: a pause follows the fetch of every row that gave a table
\* with rows, before the next fetch; after a row that gave nothing the next
\* fetch starts without a pause.
C10_PauseAfterSuccessfulRowOnly ==
    \A k \in 1..(Len(events) - 1) :
        (events[k].e = "fetch" /\ FetchNo(k) <= Len(outcome)) =>
            IF RowOk(FetchNo(k))
            THEN /\ events[k + 1] = SleepEvent
                 /\ k + 2 <= Len(events) => events[k + 2].e = "fetch"
            ELSE events[k + 1].e = "fetch"

C10_Witness ==
    /\ Len(events) = 3
    /\ events[1].e = "fetch"
    /\ events[2] = SleepEvent
    /\ events[3].e = "fetch"

====
